---- MODULE Spec2Model ----
(***************************************************************************)
(* Medicine tracker backend (src/backend/server.js, first listing, lines   *)
(* 1-195): the Medicine collection, the five HTTP routes and the cron      *)
(* driven stock check.  Time is counted in milliseconds, as Date.getTime() *)
(* does.  A JavaScript number is kept as a fixed-point integer with Scale  *)
(* units per pill, so that a fractional quantity sent in a request body    *)
(* has a value of its own.                                                 *)
(***************************************************************************)
EXTENDS Integers, Sequences, FiniteSets, TLC

VARIABLES
    clock,      \* the wall clock, what new Date() / Date.now() returns
    store,      \* the Medicine collection: _id -> document
    nextId,     \* the next _id the database hands out (ids are never reused)
    sweep,      \* per cron invocation slot: the state of checkStockAndSendAlerts
    ticked,     \* cron has fired at the current instant
    evals,      \* what the latest step of a sweep evaluated, in loop order
    response,   \* the latest HTTP response
    log,        \* the errors the stock check has written with console.error
    events      \* HTTP requests and cron triggers handled so far

vars == <<clock, store, nextId, sweep, ticked, evals, response, log, events>>

----------------------------------------------------------------------------
(* Bounds of the exploration *)

MaxDays == 1        \* the clock is explored up to day MaxDays
MaxEvents == 2      \* HTTP requests and cron triggers explored in one run
MaxIds == 2         \* documents ever created
MaxSweeps == 2      \* invocations of the stock check that may be in flight
Scale == 2          \* fixed-point units per pill

(* Program constants *)

LOW_STOCK_THRESHOLD == 5
Minute == 60 * 1000
Hour == 60 * Minute
MsPerDay == 1000 * 3600 * 24
SnoozeDuration == 1 * Hour

\* the instants the clock is explored at
Offsets == {0, 30 * Minute, 60 * Minute}
Instants ==
    Offsets \cup {d * MsPerDay + o : d \in 1..MaxDays, o \in {0, 30 * Minute}}

Ids == 1..MaxIds
Slots == 1..MaxSweeps

----------------------------------------------------------------------------
(* JavaScript values carried by a JSON request body *)

Num(n) == [t |-> "num", v |-> n * Scale]
Frac(n) == [t |-> "num", v |-> n * Scale + 1]      \* n + 1/Scale
Str == [t |-> "str", v |-> 0]                      \* a non-numeric string
Undef == [t |-> "undef", v |-> 0]                  \* the field is missing

IsInteger(x) == x.t = "num" /\ x.v % Scale = 0

NameInputs == {"Crocin", ""}
QuantityInputs == {Num(2), Num(30), Num(0 - 1), Undef}
DosageInputs == {Num(3), Num(5), Num(0)}
RestockInputs == {Num(2), Num(30), Frac(2), Num(0), Num(0 - 3), Str, Undef}

Null == << >>
Max(a, b) == IF a >= b THEN a ELSE b
Min(S) == CHOOSE x \in S : \A y \in S : x <= y

----------------------------------------------------------------------------
(* The depletion formula, as the two copies in server.js compute it *)

calculationStartDate(med) == Max(med.startDate, med.lastRestockedAt)

daysPassed(med, today) == (today - calculationStartDate(med)) \div MsPerDay

consumedQuantity(med, today) == daysPassed(med, today) * med.dosagePerDay

\* const currentStock = med.totalQuantity - consumedQuantity  (not clamped)
currentStock(med, today) == med.totalQuantity - consumedQuantity(med, today)

\* the same without the guard on an exhausted stock
daysLeftUnguarded(med, today) ==
    currentStock(med, today) \div med.dosagePerDay

daysLeft(med, today) ==
    IF currentStock(med, today) > 0
    THEN currentStock(med, today) \div med.dosagePerDay
    ELSE 0

\* the currentStock field of GET /api/medicines
listedStock(med, today) ==
    IF currentStock(med, today) > 0 THEN currentStock(med, today) ELSE 0

\* the same with the snooze still in force at the instant it ends
isSnoozedInclusive(med, today) ==
    med.snoozedUntil # Null /\ med.snoozedUntil[1] >= today

isSnoozed(med, today) ==
    med.snoozedUntil # Null /\ med.snoozedUntil[1] > today

shouldAlert(med, today) ==
    daysLeft(med, today) <= LOW_STOCK_THRESHOLD /\ ~isSnoozed(med, today)

----------------------------------------------------------------------------
(* checkStockAndSendAlerts *)

\* one iteration of the for loop over the loaded documents
Evaluate(s, id, med, today) ==
    [slot |-> s, id |-> id, today |-> today, med |-> med,
     currentStock |-> currentStock(med, today),
     daysLeft |-> daysLeft(med, today),
     alert |-> shouldAlert(med, today)]

\* the loop runs without yielding until the first await transporter.sendMail
RECURSIVE RunFrom(_, _, _, _)
RunFrom(s, meds, from, today) ==
    LET rest == {i \in DOMAIN meds : i >= from} IN
    IF rest = {} THEN << >>
    ELSE LET i == Min(rest)
             e == Evaluate(s, i, meds[i], today)
         IN IF e.alert THEN <<e>>
            ELSE <<e>> \o RunFrom(s, meds, i + 1, today)

\* a request or a cron trigger is handled: it is counted against the
\* exploration's budget
Counted ==
    /\ events < MaxEvents
    /\ events' = events + 1

Idle == [pc |-> "idle", meds |-> << >>, at |-> 0]

\* the state of the invocation after the loop ran over `run`
After(meds, run) ==
    IF run # << >> /\ run[Len(run)].alert
    THEN [pc |-> "sending", meds |-> meds, at |-> run[Len(run)].id]
    ELSE Idle

NoResponse == [op |-> "none", id |-> 0, req |-> Undef, at |-> 0,
               status |-> 0, body |-> << >>]

Reply(op, id, req, status, body) ==
    [op |-> op, id |-> id, req |-> req, at |-> clock,
     status |-> status, body |-> body]

\* a document the collection already holds when the server starts
Seeded(qty, dose) ==
    [name |-> "Crocin", totalQuantity |-> qty * Scale,
     dosagePerDay |-> dose * Scale, startDate |-> 0, lastRestockedAt |-> 0,
     snoozedUntil |-> Null]

\* the collection at server start: empty, or two documents from earlier runs
InitialStores == {<< >>, <<Seeded(2, 3), Seeded(30, 5)>>}

Init ==
    /\ clock = 0
    /\ store \in InitialStores
    /\ nextId = Len(store) + 1
    /\ sweep = [s \in Slots |-> Idle]
    /\ ticked = FALSE
    /\ evals = << >>
    /\ response = NoResponse
    /\ log = << >>
    /\ events = 0

\* the same, carrying on with the loop after a failed read
SweepStartReadingOn(s, findOk) ==
    /\ Counted
    /\ sweep[s].pc = "idle"
    /\ \A r \in Slots : r < s => sweep[r].pc # "idle"
    /\ ~ticked
    /\ ticked' = TRUE
    /\ LET run == RunFrom(s, store, 1, clock) IN
         /\ evals' = run
         /\ sweep' = [sweep EXCEPT ![s] = After(store, run)]
         /\ log' = IF findOk THEN log ELSE Append(log, "find")
    /\ UNCHANGED <<clock, store, nextId, response>>

\* node-cron fires the task every minute, whether or not the previous
\* invocation has returned; the invocation awaits Medicine.find()
SweepStart(s, findOk) ==
    /\ Counted
    /\ sweep[s].pc = "idle"
    /\ \A r \in Slots : r < s => sweep[r].pc # "idle"
    /\ ~ticked
    /\ ticked' = TRUE
    /\ IF findOk
       THEN LET run == RunFrom(s, store, 1, clock) IN
            /\ evals' = run
            /\ sweep' = [sweep EXCEPT ![s] = After(store, run)]
            /\ log' = log
       ELSE /\ evals' = << >>      \* Medicine.find() rejects: catch
            /\ sweep' = sweep
            /\ log' = Append(log, "find")
    /\ UNCHANGED <<clock, store, nextId, response>>

\* await transporter.sendMail(mailOptions) settles
SendDone(s, ok) ==
    /\ sweep[s].pc = "sending"
    /\ IF ok
       THEN LET run == RunFrom(s, sweep[s].meds, sweep[s].at + 1, clock) IN
            /\ evals' = run
            /\ sweep' = [sweep EXCEPT ![s] = After(sweep[s].meds, run)]
            /\ log' = log
       ELSE /\ evals' = << >>      \* sendMail rejects: catch
            /\ sweep' = [sweep EXCEPT ![s] = Idle]
            /\ log' = Append(log, "send")
    /\ UNCHANGED <<clock, store, nextId, ticked, response, events>>

----------------------------------------------------------------------------
(* API routes *)

\* the schema's validators, run by newMedicine.save()
ValidMedicine(name, qty, dose) ==
    /\ name # ""
    /\ qty.t = "num" /\ qty.v >= 0
    /\ dose.t = "num" /\ dose.v >= 1 * Scale

NewMedicine(name, qty, dose) ==
    [name |-> name, totalQuantity |-> qty.v, dosagePerDay |-> dose.v,
     startDate |-> clock, lastRestockedAt |-> clock, snoozedUntil |-> Null]

\* App.js: className={med.daysLeft <= 5 ? 'low-stock' : 'in-stock'}
lowStock(row) == row.daysLeft <= 5

\* POST /api/medicines
Create(name, qty, dose) ==
    /\ Counted
    /\ IF ValidMedicine(name, qty, dose)
       THEN /\ nextId <= MaxIds
            /\ store' = [i \in DOMAIN store \cup {nextId} |->
                            IF i = nextId THEN NewMedicine(name, qty, dose)
                            ELSE store[i]]
            /\ nextId' = nextId + 1
            /\ response' = Reply("create", nextId, Undef, 201,
                                 NewMedicine(name, qty, dose))
       ELSE /\ response' = Reply("create", 0, Undef, 500, << >>)
            /\ UNCHANGED <<store, nextId>>
    /\ UNCHANGED <<clock, sweep, ticked, evals, log>>

\* a guard that only asks for the quantity to be there
BadQuantityOnlyMissing(q) == q.t = "undef"

\* if (!newQuantity || newQuantity <= 0)
BadQuantity(q) ==
    \/ q.t = "undef"
    \/ q.t = "num" /\ q.v <= 0

\* the same without moving the depletion baseline
RestockedKeepingBaseline(med, q) ==
    [med EXCEPT !.totalQuantity = q.v,
                !.snoozedUntil = Null]

\* the same without clearing the snooze
RestockedKeepingSnooze(med, q) ==
    [med EXCEPT !.totalQuantity = q.v,
                !.lastRestockedAt = clock]

Restocked(med, q) ==
    [med EXCEPT !.totalQuantity = q.v,
                !.lastRestockedAt = clock,
                !.snoozedUntil = Null]

\* POST /api/medicines/:id/restock
Restock(id, q) ==
    /\ Counted
    /\ IF BadQuantity(q)
       THEN /\ response' = Reply("restock", id, q, 400, << >>)
            /\ store' = store
       ELSE IF q.t # "num"        \* CastError thrown by findByIdAndUpdate
       THEN /\ response' = Reply("restock", id, q, 500, << >>)
            /\ store' = store
       ELSE IF id \notin DOMAIN store
       THEN /\ response' = Reply("restock", id, q, 404, << >>)
            /\ store' = store
       ELSE /\ store' = [store EXCEPT ![id] = Restocked(store[id], q)]
            /\ response' = Reply("restock", id, q, 200, Restocked(store[id], q))
    /\ UNCHANGED <<clock, nextId, sweep, ticked, evals, log>>

\* the same, also moving the depletion baseline
SnoozedResettingBaseline(med) ==
    [med EXCEPT !.snoozedUntil = <<clock + SnoozeDuration>>,
                !.lastRestockedAt = clock]

\* a snooze that a second click takes back
SnoozedToggling(med) ==
    [med EXCEPT !.snoozedUntil =
        IF med.snoozedUntil = Null THEN <<clock + SnoozeDuration>> ELSE Null]

\* a snooze that only a record low on stock accepts
SnoozedIfLow(med) ==
    IF daysLeft(med, clock) <= LOW_STOCK_THRESHOLD
    THEN [med EXCEPT !.snoozedUntil = <<clock + SnoozeDuration>>]
    ELSE med

Snoozed(med) == [med EXCEPT !.snoozedUntil = <<clock + SnoozeDuration>>]

\* GET /api/medicines/snooze/:id
Snooze(id) ==
    /\ Counted
    /\ store' = IF id \in DOMAIN store
                THEN [store EXCEPT ![id] = Snoozed(store[id])]
                ELSE store
    \* body: what findByIdAndUpdate resolved with (the document as it was,
    \* or null); the route does not look at it
    /\ response' = Reply("snooze", id, Undef, 200,
                         IF id \in DOMAIN store THEN store[id] ELSE << >>)
    /\ UNCHANGED <<clock, nextId, sweep, ticked, evals, log>>

\* DELETE /api/medicines/:id
\* A delete that answers 200 and leaves the document where it is.
DeleteKeepingDocument(id) ==
    /\ Counted
    /\ IF id \in DOMAIN store
       THEN response' = Reply("delete", id, Undef, 200, << >>)
       ELSE response' = Reply("delete", id, Undef, 404, << >>)
    /\ UNCHANGED <<clock, store, nextId, sweep, ticked, evals, log>>

Delete(id) ==
    /\ Counted
    /\ IF id \notin DOMAIN store
       THEN /\ response' = Reply("delete", id, Undef, 404, << >>)
            /\ store' = store
       ELSE /\ store' = [i \in DOMAIN store \ {id} |-> store[i]]
            /\ response' = Reply("delete", id, Undef, 200, << >>)
    /\ UNCHANGED <<clock, nextId, sweep, ticked, evals, log>>

\* the same, rounding a started day up
listedDaysLeftRoundedUp(med, today) ==
    LET timeDiff == today - Max(med.startDate, med.lastRestockedAt)
        days == timeDiff \div (1000 * 3600 * 24)
        stock == med.totalQuantity - days * med.dosagePerDay
    IN IF stock > 0
       THEN (stock + med.dosagePerDay - 1) \div med.dosagePerDay
       ELSE 0

\* the daysLeft field of GET /api/medicines (the formula's second copy)
listedDaysLeft(med, today) ==
    LET timeDiff == today - Max(med.startDate, med.lastRestockedAt)
        days == timeDiff \div (1000 * 3600 * 24)
        stock == med.totalQuantity - days * med.dosagePerDay
    IN IF stock > 0 THEN stock \div med.dosagePerDay ELSE 0

Listed(med, today) ==
    [med |-> med,
     currentStock |-> listedStock(med, today),
     daysLeft |-> listedDaysLeft(med, today)]

\* GET /api/medicines
List ==
    /\ Counted
    /\ response' = Reply("list", 0, Undef, 200,
                         [i \in DOMAIN store |-> Listed(store[i], clock)])
    /\ UNCHANGED <<clock, store, nextId, sweep, ticked, evals, log>>

\* time passes
AdvanceClock ==
    /\ \E t \in Instants : t > clock /\ clock' = t
    /\ ticked' = FALSE
    /\ UNCHANGED <<store, nextId, sweep, evals, response, log, events>>

Next ==
    \/ \E s \in Slots, findOk \in BOOLEAN : SweepStart(s, findOk)
    \/ \E s \in Slots, ok \in BOOLEAN : SendDone(s, ok)
    \/ \E name \in NameInputs, qty \in QuantityInputs, dose \in DosageInputs :
          Create(name, qty, dose)
    \/ \E id \in Ids, q \in RestockInputs : Restock(id, q)
    \/ \E id \in Ids : Snooze(id)
    \/ \E id \in Ids : Delete(id)
    \/ List
    \/ AdvanceClock

Spec == Init /\ [][Next]_vars

\* new Date() reads the host's wall clock, which an administrator or a time
\* synchronisation may set back
ClockSetBack ==
    /\ \E t \in Instants : t < clock /\ clock' = t
    /\ ticked' = FALSE
    /\ UNCHANGED <<store, nextId, sweep, evals, response, log, events>>

NextOrSetBack == Next \/ ClockSetBack

\* the program on a host whose clock may be set back
SpecClockSetBack == Init /\ [][NextOrSetBack]_vars

----------------------------------------------------------------------------
(* The depletion rule as the specification states it, written apart from   *)
(* the code's two copies above                                             *)

ExpectedDaysPassed(med, now) ==
    Max((now - Max(med.startDate, med.lastRestockedAt)) \div MsPerDay, 0)

ExpectedStock(med, now) ==
    Max(med.totalQuantity - ExpectedDaysPassed(med, now) * med.dosagePerDay, 0)

ExpectedDaysLeft(med, now) ==
    IF ExpectedStock(med, now) > 0
    THEN ExpectedStock(med, now) \div med.dosagePerDay
    ELSE 0

CurrentlySnoozed(med, now) ==
    med.snoozedUntil # Null /\ med.snoozedUntil[1] > now

\* the entries of the latest sweep step
Evals == {evals[k] : k \in 1..Len(evals)}

\* the mail for the evaluated document was handed to the transporter
Dispatched(e) ==
    sweep[e.slot].pc = "sending" /\ sweep[e.slot].at = e.id

\* the rows of the latest medicine list
ListRows ==
    IF response.op = "list"
    THEN {response.body[i] : i \in DOMAIN response.body}
    ELSE {}

\* a step of some invocation of the stock check
SweepStep == sweep' # sweep \/ (ticked' /\ ~ticked)

\* a step that serves an HTTP request
RequestStep == events' # events /\ ~(ticked' /\ ~ticked)

PositiveInteger(x) == IsInteger(x) /\ x.v > 0

----------------------------------------------------------------------------
(* C1: every currentStock the system reports, in the medicine list and in  *)
(* the low-stock mail of the sweep, equals                                 *)
(* max(totalQuantity - daysPassed*dosagePerDay, 0); no negative stock is   *)
(* reported.                                                               *)
C1_ReportedStockIsClamped ==
    /\ \A row \in ListRows :
          row.currentStock = ExpectedStock(row.med, response.at)
    /\ \A e \in Evals :
          e.alert => e.currentStock = ExpectedStock(e.med, e.today)

(* C2: the sweep dispatches a mail for the document it evaluates at        *)
(* instant now exactly when daysLeft <= LOW_STOCK_THRESHOLD and the        *)
(* document is not currently snoozed (snoozedUntil non-null and > now).    *)
C2_AlertIffLowAndNotSnoozed ==
    \A e \in Evals :
        Dispatched(e) <=>
            /\ ExpectedDaysLeft(e.med, e.today) <= LOW_STOCK_THRESHOLD
            /\ ~CurrentlySnoozed(e.med, e.today)

\* one step evaluated a low document under an unexpired snooze without a
\* mail, and then a low document that is not snoozed with a mail
C2_Witness ==
    /\ \E e \in Evals :
          /\ ExpectedDaysLeft(e.med, e.today) <= LOW_STOCK_THRESHOLD
          /\ CurrentlySnoozed(e.med, e.today)
          /\ ~Dispatched(e)
    /\ \E e \in Evals :
          /\ ~CurrentlySnoozed(e.med, e.today)
          /\ Dispatched(e)

(* C3: a successful restock sets totalQuantity = newQuantity,              *)
(* lastRestockedAt = now and snoozedUntil = null, so an evaluation at the  *)
(* same instant has daysPassed = 0, currentStock = newQuantity and         *)
(* daysLeft = floor(newQuantity / dosagePerDay); a 3-per-day medicine      *)
(* restocked to 30 is listed one day later with currentStock 27 and        *)
(* daysLeft 9.                                                             *)
C3_RestockResetsBaseline ==
    /\ (response.op = "restock" /\ response.status = 200) =>
          /\ response.id \in DOMAIN store
          /\ LET med == store[response.id] IN
             /\ med.totalQuantity = response.req.v
             /\ med.lastRestockedAt = response.at
             /\ med.snoozedUntil = Null
             /\ daysPassed(med, response.at) = 0
             /\ listedStock(med, response.at) = response.req.v
             /\ daysLeft(med, response.at)
                   = response.req.v \div med.dosagePerDay
    /\ \A row \in ListRows :
          /\ row.med.lastRestockedAt > row.med.startDate
          /\ row.med.totalQuantity = 30 * Scale
          /\ row.med.dosagePerDay = 3 * Scale
          /\ response.at = row.med.lastRestockedAt + MsPerDay
          => row.currentStock = 27 * Scale /\ row.daysLeft = 9

\* a 3-per-day medicine restocked to 30 is listed one day after the restock
C3_Witness ==
    \E row \in ListRows :
        /\ row.med.lastRestockedAt > row.med.startDate
        /\ row.med.totalQuantity = 30 * Scale
        /\ row.med.dosagePerDay = 3 * Scale
        /\ response.at = row.med.lastRestockedAt + MsPerDay

(* C4 as stated: daysLeft >= 0, and daysLeft = 0 exactly when              *)
(* currentStock = 0.                                                       *)
C4_ZeroDaysIffZeroStock ==
    /\ \A row \in ListRows :
          row.daysLeft >= 0 /\ (row.daysLeft = 0 <=> row.currentStock = 0)
    /\ \A e \in Evals :
          e.daysLeft >= 0 /\ (e.daysLeft = 0 <=> Max(e.currentStock, 0) = 0)

(* C4 amended: daysLeft >= 0, and daysLeft = 0 exactly when currentStock   *)
(* is less than one day's dosage; in particular currentStock = 0 implies   *)
(* daysLeft = 0.                                                           *)
C4_ZeroDaysIffBelowOneDose ==
    /\ \A row \in ListRows :
          /\ row.daysLeft >= 0
          /\ row.daysLeft = 0 <=> row.currentStock < row.med.dosagePerDay
          /\ row.currentStock = 0 => row.daysLeft = 0
    /\ \A e \in Evals :
          /\ e.daysLeft >= 0
          /\ e.daysLeft = 0 <=> Max(e.currentStock, 0) < e.med.dosagePerDay
          /\ Max(e.currentStock, 0) = 0 => e.daysLeft = 0

\* listed: a medicine with stock left but less than one day's dosage, and
\* one that has run out
C4_Witness ==
    /\ \E row \in ListRows : row.daysLeft = 0 /\ row.currentStock > 0
    /\ \E row \in ListRows : row.daysLeft = 0 /\ row.currentStock = 0

(* C5: without a restock of a document, its listed currentStock and        *)
(* daysLeft never increase and are never negative, and its baseline date   *)
(* never moves later; a successful restock is the only step after which    *)
(* any of them is larger than before.                                      *)
C5_Step ==
    \A id \in DOMAIN store \cap DOMAIN store' :
        LET old == store[id]
            new == store'[id]
            restocked ==
                /\ RequestStep
                /\ response'.op = "restock"
                /\ response'.id = id
                /\ response'.status = 200
        IN ~restocked =>
              /\ listedStock(new, clock') <= listedStock(old, clock)
              /\ daysLeft(new, clock') <= daysLeft(old, clock)
              /\ listedStock(new, clock') >= 0
              /\ daysLeft(new, clock') >= 0
              /\ calculationStartDate(new) <= calculationStartDate(old)

C5_OnlyRestockRaisesStock == [][C5_Step]_vars

\* a document that was never restocked later than its creation has lost
\* stock with the passing of days, and the stock of another was raised by a
\* restock
C5_Witness ==
    /\ \E id \in DOMAIN store :
          /\ store[id].lastRestockedAt = store[id].startDate
          /\ listedStock(store[id], clock) < store[id].totalQuantity
    /\ response.op = "restock" /\ response.status = 200
    /\ response.id \in DOMAIN store
    /\ store[response.id].lastRestockedAt > store[response.id].startDate

(* C6: when the delivery of one document's mail fails, the documents the   *)
(* sweep loaded and has not reached yet are still evaluated in the same    *)
(* tick; only the failing one is skipped.                                  *)
C6_Step ==
    \A s \in Slots :
        (sweep[s].pc = "sending" /\ sweep'[s] # sweep[s]) =>
            LET rest == {i \in DOMAIN sweep[s].meds : i > sweep[s].at} IN
            rest # {} =>
                /\ evals' # << >>
                /\ evals'[1].slot = s
                /\ evals'[1].id = Min(rest)

C6_FailedDeliverySkipsOnlyThatRecord == [][C6_Step]_vars

(* C7: never are two sweeps in progress at once, so no document is mailed  *)
(* by two overlapping sweeps.                                              *)
C7_NoOverlappingSweeps ==
    \A s, r \in Slots :
        (sweep[s].pc # "idle" /\ sweep[r].pc # "idle") => s = r

(* C8: once a document is snoozed at t (snoozedUntil = t + 1 hour, no      *)
(* restock since), every sweep step that evaluates it before t + 1 hour    *)
(* sends no mail for it, and one that evaluates it at or after t + 1 hour  *)
(* sends the mail again if the document is still low.                      *)
C8_Step ==
    SweepStep =>
        \A k \in 1..Len(evals') :
            LET e == evals'[k] IN
            (e.id \in DOMAIN store /\ store[e.id].snoozedUntil # Null) =>
                LET until == store[e.id].snoozedUntil[1] IN
                /\ e.today < until => ~e.alert
                /\ (/\ e.today >= until
                    /\ ExpectedDaysLeft(store[e.id], e.today)
                          <= LOW_STOCK_THRESHOLD) => e.alert

C8_SnoozeSuppressesUntilExpiry == [][C8_Step]_vars

(* C9: a restock whose newQuantity is not a positive integer (zero,        *)
(* negative, missing, fractional, non-numeric) is rejected and leaves the  *)
(* document as it was.                                                     *)
C9_RestockRejectsNonPositiveInteger ==
    (response.op = "restock" /\ ~PositiveInteger(response.req)) =>
        response.status >= 400

(* C10: a restock, delete or snooze addressed to an id with no document    *)
(* answers NotFound and changes no document.                               *)
C10_Step ==
    (/\ RequestStep
     /\ response'.op \in {"restock", "delete", "snooze"}
     /\ response'.id \notin DOMAIN store
     /\ response'.op = "restock" => PositiveInteger(response'.req))
    => (response'.status = 404 /\ store' = store)

C10_MissingIdIsNotFound == [][C10_Step]_vars

\* ---------------------------------------------------------------------
\* The ids given out so far that the store no longer holds.
Deleted == {id \in 1..(nextId - 1) : id \notin DOMAIN store}

\* The id a completed delete has just removed, as the response tells it.
JustDeleted ==
    IF response.op = "delete" /\ response.status = 200
    THEN {response.id} ELSE {}

C11_Step ==
    LET gone == Deleted \cup JustDeleted IN
    \* a completed delete leaves no document under that id
    /\ JustDeleted' \cap DOMAIN store' = {}
    \* a deleted id never comes back
    /\ Deleted \subseteq Deleted'
    \* a sweep that starts loads and evaluates none of the deleted ids
    /\ (ticked' /\ ~ticked) =>
          /\ \A k \in DOMAIN evals' : evals'[k].id \notin gone
          /\ \A s \in Slots : sweep'[s] # sweep[s] =>
                DOMAIN sweep'[s].meds \cap gone = {}
    \* a list answered now shows none of them
    /\ (response' # response /\ response'.op = "list") =>
          DOMAIN response'.body \cap gone = {}

\* C11: once a delete has completed, the record is gone for good: no sweep
\* that starts afterwards loads or evaluates it, and no later list shows it.
C11_DeletedStaysDeleted == [][C11_Step]_vars

\* Document 1 was deleted and the sweep that started afterwards began its
\* evaluations with document 2.
C11_Witness ==
    /\ response.op = "delete" /\ response.status = 200 /\ response.id = 1
    /\ ticked
    /\ evals # << >> /\ evals[1].id = 2
    /\ 1 \in Deleted

WellFormed(med) ==
    /\ med.totalQuantity >= 0
    /\ med.dosagePerDay >= 1 * Scale
    /\ med.lastRestockedAt >= med.startDate

C13_Step ==
    /\ \A id \in DOMAIN store : WellFormed(store[id])
    /\ \A id \in DOMAIN store' : WellFormed(store'[id])
    \* a document that stays keeps its startDate; a new one starts now
    /\ \A id \in DOMAIN store' :
          store'[id].startDate =
              IF id \in DOMAIN store THEN store[id].startDate ELSE clock

\* C13: whatever requests were served or rejected, every stored record has
\* totalQuantity >= 0, dosagePerDay >= 1 and lastRestockedAt >= startDate,
\* and its startDate is still the one it was created with.
C13_StoreInvariants == [][C13_Step]_vars

\* A record was restocked after its creation and a later restock of it was
\* rejected.
C13_Witness ==
    /\ response.op = "restock" /\ response.status = 400
    /\ response.id \in DOMAIN store
    /\ store[response.id].lastRestockedAt > store[response.id].startDate

\* ---------------------------------------------------------------------
\* The record's state after the restock the latest response reports.
JustRestocked ==
    response.op = "restock" /\ response.status = 200

TriggerStep == ticked' /\ ~ticked

\* The read of the store has just failed in this step.
FindFails == log' # log /\ log'[Len(log')] = "find"

\* The read of the store failed at some earlier trigger.
FindFailedBefore == \E k \in DOMAIN log : log[k] = "find"

C15_Step ==
    \* the failing tick evaluates and dispatches nothing, changes no record
    \* and leaves no invocation behind
    /\ FindFails =>
          /\ TriggerStep
          /\ evals' = << >>
          /\ sweep' = sweep
          /\ store' = store /\ nextId' = nextId
    \* a trigger after a failure reads the store and begins with its first
    \* document, as any sweep does
    /\ (FindFailedBefore /\ TriggerStep /\ ~FindFails /\ DOMAIN store # {}) =>
          LET first == Min(DOMAIN store) IN
          /\ evals' # << >>
          /\ evals'[1].id = first
          /\ evals'[1].med = store[first]
          /\ evals'[1].today = clock
          /\ evals'[1].alert <=>
                (/\ ExpectedDaysLeft(store[first], clock) <= LOW_STOCK_THRESHOLD
                 /\ ~CurrentlySnoozed(store[first], clock))

\* C15: when the read of the store at the start of a sweep fails, that tick
\* dispatches no alert and changes no record, and a later trigger starts a
\* sweep that reads the store and evaluates it from the first record.
C15_FailedReadAbortsOnlyThatTick == [][C15_Step]_vars

\* The read failed at one trigger, and the sweep of the next trigger
\* evaluated document 1 and handed its mail to the transporter.
C15_Witness ==
    /\ log = <<"find">>
    /\ ticked /\ clock > 0
    /\ evals # << >>
    /\ evals[1].id = 1 /\ evals[1].today = clock
    /\ Dispatched(evals[1])

\* ---------------------------------------------------------------------
\* At the instant the loop hands a mail to the transporter, the store holds
\* the record, low and not snoozed.
DueInStore(id) ==
    /\ id \in DOMAIN store
    /\ ExpectedDaysLeft(store[id], clock) <= LOW_STOCK_THRESHOLD
    /\ ~CurrentlySnoozed(store[id], clock)

C16_Step ==
    (sweep' # sweep \/ evals' # evals) =>
        \A k \in DOMAIN evals' : evals'[k].alert => DueInStore(evals'[k].id)

\* C16: every alert a sweep dispatches is for a record that, in the store at
\* the instant of dispatch, exists, has daysLeft <= threshold and is not
\* snoozed, also when a restock, snooze or delete completed after the sweep
\* loaded its records.
C16_NoAlertFromStaleCopy == [][C16_Step]_vars

\* ---------------------------------------------------------------------
\* C17: the depletion is measured from max(startDate, lastRestockedAt) in
\* whole days, never fewer than 0: the list and the sweep both work with
\* daysPassed = max(floor((now - baseline) / 1 day), 0), and the listed
\* currentStock never exceeds totalQuantity, also at an instant before the
\* baseline.
C17_DaysPassedClampedAtZero ==
    /\ \A row \in ListRows :
          /\ row.currentStock = ExpectedStock(row.med, response.at)
          /\ row.currentStock <= row.med.totalQuantity
    /\ \A e \in Evals :
          e.currentStock =
              e.med.totalQuantity
                  - ExpectedDaysPassed(e.med, e.today) * e.med.dosagePerDay

\* ---------------------------------------------------------------------
C18_Step ==
    \A id \in DOMAIN store :
        (RequestStep /\ response'.op = "snooze" /\ response'.id = id) =>
            /\ store' = [store EXCEPT
                            ![id].snoozedUntil = <<clock + SnoozeDuration>>]
            /\ ExpectedStock(store'[id], clock) = ExpectedStock(store[id], clock)
            /\ ExpectedDaysLeft(store'[id], clock)
                   = ExpectedDaysLeft(store[id], clock)

\* C18: a snooze of an existing record sets its snoozedUntil to now + 1 hour
\* whatever its stock, and changes no other field of it and no other
\* record, so its currentStock and daysLeft stay what they were.
C18_SnoozeChangesOnlySnoozedUntil == [][C18_Step]_vars

\* A record that is not low on stock was snoozed, with another record in
\* the store.
C18_Witness ==
    /\ response.op = "snooze" /\ DOMAIN response.body # {}
    /\ ExpectedDaysLeft(response.body, response.at) > LOW_STOCK_THRESHOLD
    /\ store[response.id] =
          [response.body EXCEPT !.snoozedUntil = <<response.at + SnoozeDuration>>]
    /\ \E other \in DOMAIN store : other # response.id

\* ---------------------------------------------------------------------
\* C19: the sweep and the medicine list compute the same daysLeft for the
\* same record at the same instant, so the sweep finds a record low
\* (snooze aside) exactly when the list shows it with daysLeft <= 5, which
\* is also when the page marks it low-stock.
C19_SweepAndListAgreeOnDaysLeft ==
    /\ \A id \in DOMAIN store :
          daysLeft(store[id], clock) = listedDaysLeft(store[id], clock)
    /\ \A e \in Evals :
          LET row == Listed(e.med, e.today) IN
          /\ e.daysLeft = row.daysLeft
          /\ (e.daysLeft <= LOW_STOCK_THRESHOLD) <=> lowStock(row)
          /\ e.alert <=> (lowStock(row) /\ ~isSnoozed(e.med, e.today))
    /\ \A row \in ListRows :
          /\ row.daysLeft = daysLeft(row.med, response.at)
          /\ lowStock(row) <=>
                (daysLeft(row.med, response.at) <= LOW_STOCK_THRESHOLD)

\* The sweep mailed a record with exactly 5 days left, and the list
\* requested at the same instant shows the same record with 5 days left.
C19_Witness ==
    \E e \in Evals : \E row \in ListRows :
        /\ row.med = e.med /\ response.at = e.today
        /\ e.daysLeft = LOW_STOCK_THRESHOLD
        /\ row.daysLeft = LOW_STOCK_THRESHOLD
        /\ e.alert /\ lowStock(row)

====
